---- MODULE Spec2Model ----
(***************************************************************************)
(* OpenClaw FIDO2 secrets: the management tool (scripts/fido2-keys, cli.ts *)
(* with its fido2 and crypto modules) and the exec-provider resolver       *)
(* (scripts/fido2-resolver.mjs), sharing one store file.                   *)
(*                                                                         *)
(* Data.  A JavaScript string is a sequence of tokens, so that a template  *)
(* literal is a concatenation.  A JSON value is a record tagged by t:      *)
(* "undefined", "str" (field s), "num" (field n), "arr" (field elems),     *)
(* "b64" (a base64 string, field bytes holding what it decodes to).  Byte  *)
(* strings are records tagged by b.  PBKDF2 and AES-GCM are ideal: the     *)
(* derived key is determined by (input key material, salt) and by nothing  *)
(* else, and a ciphertext opens only under the key and nonce that made it. *)
(***************************************************************************)
EXTENDS Integers, Sequences, FiniteSets, TLC

\* ------------------------------------------------------------------ bounds
MaxTime == 2        \* Date.now() ranges over 1..MaxTime
MaxIds == 2         \* longest ids array of a request
MaxCmds == 3        \* commands started in one behaviour
MaxNonce == 1       \* getRandomValues draws a nonce from 1..MaxNonce
MaxStore == 2       \* longest store a behaviour may start from

\* --------------------------------------------------------------- constants
PROTOCOL_VERSION == 1
VERIFY_WAIT_MS == 2500      \* the wait of getFido2Credential

\* ------------------------------------------------------------- JSON values
Undefined == [t |-> "undefined"]
JStr(s) == [t |-> "str", s |-> s]
JNum(n) == [t |-> "num", n |-> n]
JArr(es) == [t |-> "arr", elems |-> es]

\* JavaScript truthiness of a JSON value (undefined, "" and 0 are falsy).
Truthy(v) ==
    CASE v.t = "undefined" -> FALSE
      [] v.t = "str" -> v.s # <<>>
      [] v.t = "num" -> v.n # 0
      [] OTHER -> TRUE

\* Buffer.from(bytes).toString('base64')
ToBase64(bytes) == [t |-> "b64", bytes |-> bytes]

\* Buffer.from(v, 'base64'): throws a TypeError unless v is a string; a
\* string that is no base64 text decodes to bytes nobody produced.
Junk == [b |-> "junk"]
CanDecode(v) == v.t \in {"b64", "str"}
FromBase64(v) == IF v.t = "b64" THEN v.bytes ELSE Junk

\* ------------------------------------------------------------------ crypto
\* new Uint8Array(65): the public key the enrollment stub returns.
ZeroBytes65 == [b |-> "zeros"]

\* deriveEncryptionKey(credentialId, credentialPublicKey): PBKDF2 over
\* ikm = utf8(credentialId) ++ credentialPublicKey with the public key as
\* salt.  No random input.  The same function in crypto.ts and the resolver.
\* A key is known by the key material and the salt it comes from.
deriveEncryptionKey(credentialId, credentialPublicKey) ==
    [ikm |-> [str |-> credentialId, bytes |-> credentialPublicKey],
     salt |-> credentialPublicKey]

\* webcrypto.subtle.deriveKey(algorithm, baseKey, ...): baseKey is to be a
\* CryptoKey, the handle importKey returns for key material; any other
\* value is refused with a TypeError before anything is derived.
IsCryptoKey(baseKey) == "handle" \in DOMAIN baseKey
NotCalled == [ok |-> FALSE, thrown |-> "", key |-> [none |-> TRUE]]
subtleDeriveKey(baseKey, salt) ==
    IF IsCryptoKey(baseKey)
    THEN [ok |-> TRUE, thrown |-> "", key |-> [ikm |-> baseKey.handle, salt |-> salt]]
    ELSE [ok |-> FALSE, thrown |-> "TypeError", key |-> [none |-> TRUE]]

\* The call as deriveEncryptionKey makes it: ikm, a Uint8Array, is the
\* baseKey.  The specifications of the resolver and of the management tool
\* take the call to return the key of this material and salt, to settle
\* what the program does with its keys; the specification of the crypto
\* functions takes the call as it is written.
deriveEncryptionKeyCall(credentialId, credentialPublicKey) ==
    LET material == deriveEncryptionKey(credentialId, credentialPublicKey)
    IN  subtleDeriveKey(material.ikm, material.salt)

\* TextEncoder.encode / TextDecoder.decode
Utf8Encode(str) == [b |-> "utf8", s |-> str]
Utf8Decode(bytes) == bytes.s

NonceBytes(n) == [b |-> "iv", n |-> n]

\* encryptValue(value, key) with the nonce getRandomValues drew.
encryptValue(value, key, nonce) ==
    [encrypted |-> ToBase64([b |-> "ct", key |-> key, iv |-> NonceBytes(nonce),
                             pt |-> Utf8Encode(value)]),
     iv |-> ToBase64(NonceBytes(nonce))]

\* AES-GCM opens a ciphertext only under the key and the nonce that sealed it.
TagVerifies(ct, ivBytes, key) ==
    /\ ct.b = "ct"
    /\ ct.key = key
    /\ ct.iv = ivBytes

\* decryptValue(encrypted, iv, key): [ok |-> TRUE, value] or [ok |-> FALSE].
\* Buffer.from throws on a value that is not a string; subtle.decrypt throws
\* when the tag does not verify.
decryptValue(encrypted, iv, key) ==
    IF /\ CanDecode(iv)
       /\ CanDecode(encrypted)
       /\ TagVerifies(FromBase64(encrypted), FromBase64(iv), key)
    THEN [ok |-> TRUE, value |-> Utf8Decode(FromBase64(encrypted).pt)]
    ELSE [ok |-> FALSE, value |-> <<>>]

\* ------------------------------------------------------------------- store
\* The store file: absent (ENOENT), text that is no JSON ("garbage", which
\* is also what a reader finds while writeFile has truncated the file and
\* not yet written it), JSON that is no array ("nonarray"), or a JSON array
\* of records ("array").
Ids == {<<"a">>, <<"b">>}
Labels == {<<"L">>}
Plaintexts == {<<"v1">>, <<"v2">>}

AbsentStore == [kind |-> "absent", keys |-> <<>>]
GarbageStore == [kind |-> "garbage", keys |-> <<>>]
NonArrayStore == [kind |-> "nonarray", keys |-> <<>>]
ArrayStore(keys) == [kind |-> "array", keys |-> keys]

\* `fido2-${userId}-${Date.now()}` with userId = `openclaw-${id}`
UserId(id) == <<"openclaw-">> \o id
MockCredentialId(userId, now) == <<"fido2-">> \o userId \o <<"-", ToString(now)>>

\* A record kept without the public key of its credential, which nothing
\* then binds to the device.
StoredKey_Unbound(id, label, encrypted, iv, createdAt, credentialId, publicKey) ==
    [id |-> JStr(id),
     label |-> JStr(label),
     encryptedValue |-> encrypted,
     iv |-> iv,
     createdAt |-> JNum(createdAt),
     rpId |-> JStr(<<"openclaw.ai">>),
     userHandle |-> ToBase64(Utf8Encode(UserId(id))),
     credentialId |-> JStr(credentialId),
     credentialPublicKey |-> Undefined]

\* Fido2StoredKey as setKey builds it.
StoredKey(id, label, encrypted, iv, createdAt, credentialId, publicKey) ==
    [id |-> JStr(id),
     label |-> JStr(label),
     encryptedValue |-> encrypted,
     iv |-> iv,
     createdAt |-> JNum(createdAt),
     rpId |-> JStr(<<"openclaw.ai">>),
     userHandle |-> ToBase64(Utf8Encode(UserId(id))),
     credentialId |-> JStr(credentialId),
     credentialPublicKey |-> ToBase64(publicKey)]

\* keys.find(k => k.id === id): the first record with that id, 0 when none.
FindIndex(keys, id) ==
    IF \E i \in 1..Len(keys) : keys[i].id = id
    THEN CHOOSE i \in 1..Len(keys) :
            /\ keys[i].id = id
            /\ \A j \in 1..(i - 1) : keys[j].id # id
    ELSE 0

\* The resolver's loadStoredKeys: [] when the file is absent, throws when it
\* does not parse or is not an array.
ResolverLoad(file) ==
    CASE file.kind = "absent" -> [ok |-> TRUE, keys |-> <<>>]
      [] file.kind = "array" -> [ok |-> TRUE, keys |-> file.keys]
      [] OTHER -> [ok |-> FALSE, keys |-> <<>>]

\* The management tool's loadStoredKeys: JSON.parse(data), and [] on any
\* error (absent, unparseable).  A JSON value that is no array is returned
\* as it is, and the caller's keys.find / keys.findIndex / for..of throws.
CliLoad(file) ==
    CASE file.kind = "array" -> [isArray |-> TRUE, keys |-> file.keys]
      [] file.kind = "nonarray" -> [isArray |-> FALSE, keys |-> <<>>]
      [] OTHER -> [isArray |-> TRUE, keys |-> <<>>]

\* ----------------------------------------------------------------- state
VARIABLES
    store,      \* the content of ~/.openclaw/fido2-keys.json
    now,        \* Date.now()
    cmds,       \* commands started so far
    res,        \* the resolver process
    mg,         \* the management tool's processes
    cr          \* the functions of crypto.ts, applied to inputs

vars == <<store, now, cmds, res, mg, cr>>

\* ------------------------------------------------------- resolver: request
\* What readRequest hands to main: a rejection (text that is no JSON), or
\* the parsed value: null, or an object with these three properties.
BadJsonInput ==
    [kind |-> "badjson", protocolVersion |-> Undefined, provider |-> Undefined,
     ids |-> Undefined]
NullInput ==
    [kind |-> "null", protocolVersion |-> Undefined, provider |-> Undefined,
     ids |-> Undefined]
Request(protocolVersion, provider, ids) ==
    [kind |-> "object", protocolVersion |-> protocolVersion,
     provider |-> provider, ids |-> ids]

\* An element of the ids array: an identifier, or a value that is no string.
IdElems == {JStr(id) : id \in Ids} \cup {JNum(7)}
IdArrays == UNION {[1..n -> IdElems] : n \in 1..MaxIds}
IdsInputs == {Undefined, JStr(<<"a">>), JArr(<<>>)} \cup {JArr(es) : es \in IdArrays}

\* Requests with the right version and provider and every ids value, and
\* requests with a wrong version or provider.
RequestInputs ==
    {BadJsonInput, NullInput, Request(Undefined, Undefined, Undefined)}
    \cup {Request(JNum(PROTOCOL_VERSION), JStr(<<"fido2">>), ids) : ids \in IdsInputs}
    \cup {Request(pv, pr, ids) :
            pv \in {JNum(PROTOCOL_VERSION), JNum(PROTOCOL_VERSION + 1)},
            pr \in {JStr(<<"fido2">>), JStr(<<"other">>)},
            ids \in {Undefined, JArr(<<JStr(<<"a">>)>>)}}

\* The checks without the one of the protocol version.
ValidateRequest_AnyVersion(request) ==
    CASE request.kind = "badjson" -> <<"invalid JSON request">>
      [] request.kind = "null" -> <<"TypeError: cannot read properties of null">>
      [] request.provider # JStr(<<"fido2">>) -> <<"unsupported provider">>
      [] \/ ~Truthy(request.ids)
         \/ request.ids.t # "arr"
         \/ Len(request.ids.elems) = 0 -> <<"request lacks valid IDs">>
      [] OTHER -> <<>>

\* The three checks at the head of resolveSecrets; "" when they pass.  A
\* request that is null throws a TypeError at request.protocolVersion.
ValidateRequest(request) ==
    CASE request.kind = "badjson" -> <<"invalid JSON request">>
      [] request.kind = "null" -> <<"TypeError: cannot read properties of null">>
      [] request.protocolVersion # JNum(PROTOCOL_VERSION) ->
            <<"unsupported protocol version">>
      [] request.provider # JStr(<<"fido2">>) -> <<"unsupported provider">>
      [] \/ ~Truthy(request.ids)
         \/ request.ids.t # "arr"
         \/ Len(request.ids.elems) = 0 -> <<"request lacks valid IDs">>
      [] OTHER -> <<>>

\* --------------------------------------------------- resolver: responses
\* A JavaScript object is a function from its property names.
NoKeys == [k \in {} |-> Undefined]
Put(obj, key, value) == (key :> value) @@ obj

\* The object resolveSecrets builds.
Response(provider, values, errors) ==
    [protocolVersion |-> PROTOCOL_VERSION, provider |-> provider,
     values |-> values, errors |-> errors]

\* main's catch block.
errorResponse(message) ==
    [protocolVersion |-> PROTOCOL_VERSION, provider |-> JStr(<<"fido2">>),
     values |-> NoKeys,
     errors |-> Put(NoKeys, <<"_system">>, [message |-> message])]

\* JSON.stringify leaves out a property whose value is undefined.
Stringify(response) ==
    [response EXCEPT !.values =
        [k \in {x \in DOMAIN response.values : response.values[x].t # "undefined"}
            |-> response.values[k]]]

\* ------------------------------------------------ resolver: one identifier
\* What the credential gate can answer.  getFido2Credential stands in for
\* the authenticator; a real one also throws, with the messages the catch
\* block of resolveSecretKey looks for.
GateAnswers == {"ok", "cancel", "timeout", "unavailable"}
GateMessage(answer) ==
    CASE answer = "cancel" -> <<"user ", "cancel", "led the FIDO2 operation">>
      [] answer = "timeout" -> <<"FIDO2 operation ", "timeout">>
      [] OTHER -> <<"FIDO2 device unavailable">>

Includes(message, word) == \E i \in 1..Len(message) : message[i] = word

\* The catch block of resolveSecretKey: the error is classified by the words
\* of its message.
CatchError(message) ==
    IF Includes(message, "cancel")
    THEN [error |-> "fido2_cancelled", message |-> <<"FIDO2 operation cancelled by user">>]
    ELSE IF Includes(message, "timeout")
    THEN [error |-> "fido2_timeout", message |-> <<"FIDO2 operation timed out">>]
    ELSE [error |-> "decryption_failed", message |-> message]

\* const requiresFido2 = storedKey.encryptedValue && storedKey.credentialPublicKey
requiresFido2(storedKey) ==
    Truthy(storedKey.encryptedValue) /\ Truthy(storedKey.credentialPublicKey)

\* The key resolveSecretKey derives: deriveEncryptionKey(id, publicKey), id
\* being the identifier of the request.
ResolverKey(id, storedKey) ==
    deriveEncryptionKey(id, FromBase64(storedKey.credentialPublicKey))

\* --------------------------------------------------------- resolver: main
\* The resolver is one short-lived process per request.  ev is the history
\* of its gate and decrypt calls (a decrypt with the key it was given), out
\* the outcome of each identifier so far, stdout and stderr what it has
\* written there, read how readRequest ended, t the milliseconds it has
\* waited since, at the value of t when the turn of each identifier began.
NoKey == [none |-> TRUE]
Event(e, i, key) == [e |-> e, i |-> i, key |-> key]
Outcome(kind, cause) == [kind |-> kind, cause |-> cause]

ResolverIdle ==
    [pc |-> "idle", request |-> NullInput, keys |-> <<>>, i |-> 0,
     values |-> NoKeys, errors |-> NoKeys, ev |-> <<>>, out |-> <<>>,
     stdout |-> <<>>, stderr |-> <<>>, exit |-> -1, read |-> "none",
     t |-> 0, at |-> <<>>]

\* logPrompt and logError write to stderr; a variant that writes to stdout.
logPrompt_Stdout(r, message) == [r EXCEPT !.stdout = Append(@, message)]

logPrompt(r, message) == [r EXCEPT !.stderr = Append(@, message)]
logError(r, message) == [r EXCEPT !.stderr = Append(@, message)]

\* outputResponse(response); process.exit(code)
Exit(r, response, code) ==
    [r EXCEPT !.pc = "done", !.stdout = Append(@, Stringify(response)), !.exit = code]

\* The host starts the resolver: main calls readRequest, which waits for
\* standard input to end.
ResolverSpawn ==
    /\ res.pc \in {"idle", "done"}
    /\ cmds < MaxCmds
    /\ cmds' = cmds + 1
    /\ res' = [ResolverIdle EXCEPT !.pc = "read"]
    /\ UNCHANGED <<cr, store, now, mg>>

\* How readRequest ends: standard input is closed, or the timer of 30 s
\* closes the reader itself; either way the 'close' handler parses the
\* lines read so far ('{}' when there are none).
ReadEnds == {"close", "timeout"}

\* What the 'close' handler parses: at the end of standard input any
\* request; at the timer the lines that have arrived by then: none, a text
\* cut off, or a whole request (of one element here).
ReadBy(how) ==
    IF how = "close" THEN RequestInputs
    ELSE {BadJsonInput, Request(Undefined, Undefined, Undefined)}
         \cup {Request(JNum(PROTOCOL_VERSION), JStr(<<"fido2">>), JArr(<<e>>)) :
                    e \in IdElems}

\* main from there: resolveSecrets up to its first await (the store read).
\* A request the three checks refuse, or no request at all, ends in main's
\* catch block.
ResolverStart(request, how) ==
    /\ res.pc = "read"
    /\ LET r == [res EXCEPT !.request = request, !.read = how]
           refusal == ValidateRequest(request)
       IN  res' = IF refusal # <<>>
                  THEN Exit(r, errorResponse(refusal), 1)
                  ELSE [r EXCEPT !.pc = "load"]
    /\ UNCHANGED <<cr, store, now, cmds, mg>>

\* The catch around loadStoredKeys in resolveSecrets: an empty response is
\* returned, which main writes before process.exit(0).
StoreUnreadable(r) ==
    Exit(r, Response(r.request.provider, NoKeys, NoKeys), 0)

\* storedKeys = await loadStoredKeys()
ResolverLoadStore ==
    /\ res.pc = "load"
    /\ LET loaded == ResolverLoad(store)
       IN  res' = IF loaded.ok
                  THEN [res EXCEPT !.pc = "next", !.keys = loaded.keys, !.i = 1]
                  ELSE StoreUnreadable(res)
    /\ UNCHANGED <<cr, store, now, cmds, mg>>

\* normalizeId(id): id.match throws a TypeError on a value that is no
\* string, which leaves resolveSecrets for main's catch block.
MalformedId(r) ==
    Exit(r, errorResponse(<<"TypeError: id.match is not a function">>), 1)

\* if (!storedKey) { response.errors[id] = {...}; continue; }
KeyNotFound(r, id) ==
    [logError(r, "not found") EXCEPT
        !.errors = Put(@, id, [message |-> <<"Key not found in FIDO2 storage">>]),
        !.out = Append(@, Outcome("error", "notfound")),
        !.i = @ + 1]

\* if (!requiresFido2) return { value: storedKey.encryptedValue }, and then
\* response.values[id] = result.value
PlaintextRecord(r, id, storedKey) ==
    [logPrompt(r, "resolving") EXCEPT
        !.values = Put(@, id, storedKey.encryptedValue),
        !.out = Append(@, Outcome("value", "passthrough")),
        !.i = @ + 1]

\* response.values[id] = result.value, after a decrypt that returned.
Decrypted(r, id, key, value) ==
    [logPrompt(logPrompt(r, "deriving"), "decrypting") EXCEPT
        !.pc = "next",
        !.ev = Append(@, Event("decrypt", r.i, key)),
        !.values = Put(@, id, JStr(value)),
        !.out = Append(@, Outcome("value", "decrypted")),
        !.i = @ + 1]

\* A failed identifier that ends the request instead, as a throw would.
Failed_Abort(r, id, caught, cause) ==
    Exit(r, errorResponse(caught.message), 1)

\* response.errors[id] = { message: result.message }, and the loop goes on.
Failed(r, id, caught, cause) ==
    [logError(r, caught.error) EXCEPT
        !.pc = "next",
        !.errors = Put(@, id, [message |-> caught.message]),
        !.out = Append(@, Outcome("error", cause)),
        !.i = @ + 1]

\* resolveSecretKey up to the await of getFido2Credential, whose prompt
\* is on stderr by then.
VerifyStarts(r) ==
    [logPrompt(logPrompt(r, "resolving"), "touch") EXCEPT
        !.pc = "verify",
        !.ev = Append(@, Event("verify", r.i, NoKey))]

\* A loop that does not await: with the verification of one identifier it
\* starts the one of the next.
ResolverNextId_All ==
    /\ res.pc = "next"
    /\ res.i <= Len(res.request.ids.elems)
    /\ LET id == res.request.ids.elems[res.i]
           at == FindIndex(res.keys, id)
           r == [res EXCEPT !.at = Append(@, res.t)]
       IN  res' =
            IF id.t # "str" THEN MalformedId(r)
            ELSE IF at = 0 THEN KeyNotFound(r, id.s)
            ELSE IF ~requiresFido2(r.keys[at])
            THEN PlaintextRecord(r, id.s, r.keys[at])
            ELSE [VerifyStarts(r) EXCEPT
                    !.ev = IF r.i < Len(r.request.ids.elems)
                           THEN Append(@, Event("verify", r.i + 1, NoKey))
                           ELSE @]
    /\ UNCHANGED <<cr, store, now, cmds, mg>>

\* One turn of `for (const id of request.ids)` up to its await: normalizeId,
\* the lookup, and resolveSecretKey up to getFido2Credential.
ResolverNextId ==
    /\ res.pc = "next"
    /\ res.i <= Len(res.request.ids.elems)
    /\ LET id == res.request.ids.elems[res.i]
           at == FindIndex(res.keys, id)
           r == [res EXCEPT !.at = Append(@, res.t)]
       IN  res' =
            IF id.t # "str" THEN MalformedId(r)
            ELSE IF at = 0 THEN KeyNotFound(r, id.s)
            ELSE IF ~requiresFido2(r.keys[at])
            THEN PlaintextRecord(r, id.s, r.keys[at])
            ELSE VerifyStarts(r)
    /\ UNCHANGED <<cr, store, now, cmds, mg>>

\* What getFido2Credential returns: authenticatorData is a fresh random
\* challenge, signature 64 random bytes, userHandle 16 zero bytes.
Assertions ==
    {[authenticatorData |-> [b |-> "random", n |-> n],
      signature |-> [b |-> "random", n |-> n],
      userHandle |-> [b |-> "zeros16"]] : n \in {1, 2}}

\* A resolver that looks at the assertion: a signature that does not
\* verify fails the identifier.
resolveSecretKey_Checked(r, id, storedKey, assertion) ==
    LET key == ResolverKey(id, storedKey)
        opened == decryptValue(storedKey.encryptedValue, storedKey.iv, key)
    IN  IF assertion.signature.n # 1
        THEN Failed(r, id, CatchError(<<"signature does not verify">>), "decrypt")
        ELSE IF opened.ok
        THEN Decrypted(r, id, key, opened.value)
        ELSE Failed([logPrompt(logPrompt(r, "deriving"), "decrypting")
                        EXCEPT !.ev = Append(@, Event("decrypt", r.i, key))],
                    id,
                    CatchError(<<"decrypt failed: ", "operation-specific reason">>),
                    "decrypt")

\* resolveSecretKey after getFido2Credential has returned the assertion:
\* authenticatorData and signature are bound and not read again; the key is
\* derived from the identifier and the stored public key, the value
\* decrypted, and a throw of the decryption classified by CatchError.
resolveSecretKey(r, id, storedKey, assertion) ==
    LET key == ResolverKey(id, storedKey)
        opened == decryptValue(storedKey.encryptedValue, storedKey.iv, key)
    IN  IF opened.ok
        THEN Decrypted(r, id, key, opened.value)
        ELSE Failed([logPrompt(logPrompt(r, "deriving"), "decrypting")
                        EXCEPT !.ev = Append(@, Event("decrypt", r.i, key))],
                    id,
                    CatchError(<<"decrypt failed: ", "operation-specific reason">>),
                    "decrypt")

\* getFido2Credential returns an assertion, after its wait, or throws; on
\* return resolveSecretKey goes on; a throw is classified by CatchError.
ResolverVerified(answer, assertion) ==
    /\ res.pc = "verify"
    /\ LET id == res.request.ids.elems[res.i]
           storedKey == res.keys[FindIndex(res.keys, id)]
           r == [res EXCEPT !.t = @ + VERIFY_WAIT_MS]
       IN  res' =
            IF answer # "ok"
            THEN Failed(r, id.s, CatchError(GateMessage(answer)), answer)
            ELSE resolveSecretKey(r, id.s, storedKey, assertion)
    /\ UNCHANGED <<cr, store, now, cmds, mg>>

\* After the loop: outputResponse(response); process.exit(0).
ResolverOutput ==
    /\ res.pc = "next"
    /\ res.i > Len(res.request.ids.elems)
    /\ res' = Exit(res, Response(res.request.provider, res.values, res.errors), 0)
    /\ UNCHANGED <<cr, store, now, cmds, mg>>

\* The steps of a resolver that has been started.
ResolverRuns ==
    \/ \E how \in ReadEnds : \E request \in ReadBy(how) : ResolverStart(request, how)
    \/ ResolverLoadStore
    \/ ResolverNextId
    \/ \E answer \in GateAnswers, assertion \in Assertions :
            ResolverVerified(answer, assertion)
    \/ ResolverOutput

ResolverStep == ResolverSpawn \/ ResolverRuns

\* ------------------------------------------------------- management tool
\* Each invocation of the command line tool is a process of its own.  ev
\* is the history of its enroll, confirm and decrypt calls.
Procs == {"m1", "m2"}

NoCipher == [encrypted |-> Undefined, iv |-> Undefined]
NoResult == [kind |-> "none", value |-> <<>>]

CliIdle ==
    [pc |-> "idle", cmd |-> "none", id |-> <<>>, label |-> <<>>, value |-> <<>>,
     credentialId |-> <<>>, publicKey |-> ZeroBytes65, cipher |-> NoCipher,
     keys |-> <<>>, ev |-> <<>>, result |-> NoResult, exit |-> -1]

\* The commands run one after the other.  The processes being alike, they
\* are taken to come from m1 and m2 in turn, so that what a command printed
\* outlasts the command after it.
Turn == IF cmds % 2 = 0 THEN "m1" ELSE "m2"

\* A command is started when none runs.
CliStart(p) ==
    /\ p = Turn
    /\ \A q \in Procs : mg[q].pc \in {"idle", "done"}
    /\ cmds < MaxCmds
    /\ cmds' = cmds + 1

\* Each invocation being a process of its own, nothing makes a command
\* wait for the one another terminal runs.
CliStartAny(p) ==
    /\ mg[p].pc \in {"idle", "done"}
    /\ cmds < MaxCmds
    /\ cmds' = cmds + 1

\* The variables of a command that has just started.
CliRun(cmd, id, label, value) ==
    [CliIdle EXCEPT !.pc = "run", !.cmd = cmd, !.id = id, !.label = label,
                    !.value = value]

\* The command ends, process.exit(1) after an error, 0 otherwise: what it
\* printed, its exit code and its history remain, its variables do not.
CliExit(m, kind, value, code) ==
    [CliIdle EXCEPT !.pc = "done", !.cmd = m.cmd, !.id = m.id, !.ev = m.ev,
                    !.result = [kind |-> kind, value |-> value], !.exit = code]

\* The key getKeyValue derives: deriveEncryptionKey(key.id, publicKey).
CliReadKey(key) ==
    deriveEncryptionKey(key.id.s, FromBase64(key.credentialPublicKey))

\* A get that saves after it has read.
getKeyValue_WriteBack(p, cmd, id) ==
    /\ CliStart(p)
    /\ mg' = [mg EXCEPT ![p] = CliExit(CliRun(cmd, id, <<>>, <<>>), "value", <<>>, 0)]
    /\ store' = IF store = AbsentStore THEN ArrayStore(<<>>) ELSE AbsentStore
    /\ UNCHANGED <<cr, now, res>>

\* get <id> and export <id>, both of which call getKeyValue(id): load,
\* find, derive, decrypt.  Whatever it throws, the command prints and
\* exits 1.
getKeyValue(p, cmd, id) ==
    /\ CliStart(p)
    /\ LET m == CliRun(cmd, id, <<>>, <<>>)
           loaded == CliLoad(store)
           at == FindIndex(loaded.keys, JStr(id))
           key == loaded.keys[at]
           opened == decryptValue(key.encryptedValue, key.iv, CliReadKey(key))
       IN  mg' = [mg EXCEPT ![p] =
                IF ~loaded.isArray
                THEN CliExit(m, "error", <<"TypeError: keys.find is not a function">>, 1)
                ELSE IF at = 0
                THEN CliExit(m, "error", <<"key does not exist">>, 1)
                ELSE IF ~requiresFido2(key)
                THEN CliExit(m, "error", <<"key is not FIDO2 encrypted">>, 1)
                ELSE IF opened.ok
                THEN CliExit([m EXCEPT !.ev = Append(@, Event("decrypt", 0, CliReadKey(key)))],
                             "value", opened.value, 0)
                ELSE CliExit([m EXCEPT !.ev = Append(@, Event("decrypt", 0, CliReadKey(key)))],
                             "error", <<"decrypt failed: ", "operation-specific reason">>, 1)]
    /\ UNCHANGED <<cr, store, now, res>>

\* list: load and print id, label, createdAt, credentialId of every record.
listKeys(p) ==
    /\ CliStart(p)
    /\ LET m == CliRun("list", <<>>, <<>>, <<>>)
           loaded == CliLoad(store)
       IN  mg' = [mg EXCEPT ![p] =
                IF ~loaded.isArray
                THEN CliExit(m, "error", <<"TypeError: keys is not iterable">>, 1)
                ELSE CliExit(m, "listed", <<>>, 0)]
    /\ UNCHANGED <<cr, store, now, res>>

CliReadStep(p) ==
    \/ \E cmd \in {"get", "export"}, id \in Ids : getKeyValue(p, cmd, id)
    \/ listKeys(p)

\* A confirm() prompt is answered yes or no; the answer goes to the history.
Answers == {TRUE, FALSE}
Prompted(m, answer) ==
    [m EXCEPT !.ev = Append(@, Event(IF answer THEN "confirm" ELSE "decline", 0, NoKey))]

\* A splice that removes nothing.
Splice_Keep(keys, index) == keys

\* keys.splice(index, 1)
Splice(keys, index) ==
    [j \in 1..(Len(keys) - 1) |-> IF j < index THEN keys[j] ELSE keys[j + 1]]

\* A filter that lets nothing through.
FilterOut_All(keys, id) == <<>>

\* keys.filter(k => k.id !== id)
RECURSIVE FilterOut(_, _)
FilterOut(keys, id) ==
    IF keys = <<>> THEN <<>>
    ELSE IF Head(keys).id = id THEN FilterOut(Tail(keys), id)
    ELSE <<Head(keys)>> \o FilterOut(Tail(keys), id)

\* Time passes while the enrollment stub waits its two seconds: the
\* clock reaches t, and has not gone back.
TimePasses(t) ==
    /\ t \in now..MaxTime
    /\ now' = t

\* The new record of setKey, createdAt being Date.now().
NewStoredKey(m) ==
    StoredKey(m.id, m.label, m.cipher.encrypted, m.cipher.iv, now,
              m.credentialId, m.publicKey)

\* A set that enrolls again after a first enrollment.
createCredential_Twice(p, id, label, value, answer, nonce, t) ==
    /\ CliStart(p)
    /\ TimePasses(t)
    /\ LET m == CliRun("set", id, label, value)
           credentialId == MockCredentialId(UserId(id), now)
           key == deriveEncryptionKey(credentialId, ZeroBytes65)
           twice == Append(Append(m.ev, Event("enroll", 0, NoKey)),
                           Event("enroll", 0, NoKey))
       IN  mg' = [mg EXCEPT ![p] =
                IF answer # "ok"
                THEN CliExit([m EXCEPT !.ev = twice], "error", GateMessage(answer), 1)
                ELSE [m EXCEPT !.pc = "set_load",
                               !.credentialId = credentialId,
                               !.publicKey = ZeroBytes65,
                               !.cipher = encryptValue(value, key, nonce),
                               !.ev = Append(twice, Event("encrypt", 0, key))]]
    /\ UNCHANGED <<cr, store, res>>

\* set <id> <label>, the value read from the prompt: setKey up to
\* loadStoredKeys.  createCredential(userId, userName), whose stub returns
\* `fido2-${userId}-${Date.now()}` and 65 zero bytes after waiting two
\* seconds (a real gate also throws, which nothing catches), then
\* deriveEncryptionKey(credentialId, publicKey) and encryptValue(value, key).
setKeyEnroll(p, id, label, value, answer, nonce, t) ==
    /\ TimePasses(t)
    /\ LET m == CliRun("set", id, label, value)
           credentialId == MockCredentialId(UserId(id), now)
           key == deriveEncryptionKey(credentialId, ZeroBytes65)
       IN  mg' = [mg EXCEPT ![p] =
                IF answer # "ok"
                THEN CliExit([m EXCEPT !.ev = Append(@, Event("enroll", 0, NoKey))],
                             "error", GateMessage(answer), 1)
                ELSE [m EXCEPT !.pc = "set_load",
                               !.credentialId = credentialId,
                               !.publicKey = ZeroBytes65,
                               !.cipher = encryptValue(value, key, nonce),
                               !.ev = Append(Append(@, Event("enroll", 0, NoKey)),
                                             Event("encrypt", 0, key))]]
    /\ UNCHANGED <<cr, store, res>>

\* set, started when no other command runs.
createCredential(p, id, label, value, answer, nonce, t) ==
    /\ CliStart(p)
    /\ setKeyEnroll(p, id, label, value, answer, nonce, t)

\* set, started whatever the other process does.
setKeyAny(p, id, label, value, answer, nonce, t) ==
    /\ CliStartAny(p)
    /\ setKeyEnroll(p, id, label, value, answer, nonce, t)

\* setKey from loadStoredKeys to the confirm prompt or to saveStoredKeys.
setKeyLoad(p) ==
    /\ mg[p].pc = "set_load"
    /\ LET m == mg[p]
           loaded == CliLoad(store)
           existingIndex == FindIndex(loaded.keys, JStr(m.id))
       IN  mg' = [mg EXCEPT ![p] =
                IF ~loaded.isArray
                THEN CliExit(m, "error", <<"TypeError: keys.findIndex is not a function">>, 1)
                ELSE IF existingIndex > 0
                THEN [m EXCEPT !.pc = "set_confirm", !.keys = loaded.keys]
                ELSE [m EXCEPT !.pc = "write",
                               !.keys = Append(loaded.keys, NewStoredKey(m))]]
    /\ UNCHANGED <<cr, store, now, cmds, res>>

\* An overwrite prompt whose answer is not looked at.
setKeyConfirm_Always(p, shouldReplace) ==
    /\ mg[p].pc = "set_confirm"
    /\ LET m == Prompted(mg[p], shouldReplace)
           existingIndex == FindIndex(m.keys, JStr(m.id))
       IN  mg' = [mg EXCEPT ![p] =
                [m EXCEPT !.pc = "write",
                          !.keys = Append(Splice(m.keys, existingIndex),
                                          NewStoredKey(m))]]
    /\ UNCHANGED <<cr, store, now, cmds, res>>

\* The overwrite prompt of setKey: declined, the command returns; confirmed,
\* the old record is spliced out and the new one pushed.
setKeyConfirm(p, shouldReplace) ==
    /\ mg[p].pc = "set_confirm"
    /\ LET m == Prompted(mg[p], shouldReplace)
           existingIndex == FindIndex(m.keys, JStr(m.id))
       IN  mg' = [mg EXCEPT ![p] =
                IF ~shouldReplace
                THEN CliExit(m, "cancelled", <<>>, 0)
                ELSE [m EXCEPT !.pc = "write",
                               !.keys = Append(Splice(m.keys, existingIndex),
                                               NewStoredKey(m))]]
    /\ UNCHANGED <<cr, store, now, cmds, res>>

\* delete <id>: deleteKey up to its confirm prompt.
deleteKeyLookup(p, id) ==
    /\ LET m == CliRun("delete", id, <<>>, <<>>)
           loaded == CliLoad(store)
       IN  mg' = [mg EXCEPT ![p] =
                IF ~loaded.isArray
                THEN CliExit(m, "error", <<"TypeError: keys.find is not a function">>, 1)
                ELSE IF FindIndex(loaded.keys, JStr(id)) = 0
                THEN CliExit(m, "error", <<"key does not exist">>, 1)
                ELSE [m EXCEPT !.pc = "del_confirm", !.keys = loaded.keys]]
    /\ UNCHANGED <<cr, store, now, res>>

\* delete, started when no other command runs.
deleteKeyLoad(p, id) ==
    /\ CliStart(p)
    /\ deleteKeyLookup(p, id)

\* delete, started whatever the other process does.
deleteKeyAny(p, id) ==
    /\ CliStartAny(p)
    /\ deleteKeyLookup(p, id)

\* deleteKey from its confirm prompt on.
deleteKeyConfirm(p, shouldDelete) ==
    /\ mg[p].pc = "del_confirm"
    /\ LET m == Prompted(mg[p], shouldDelete)
       IN  mg' = [mg EXCEPT ![p] =
                IF ~shouldDelete
                THEN CliExit(m, "cancelled", <<>>, 0)
                ELSE [m EXCEPT !.pc = "write", !.keys = FilterOut(m.keys, JStr(m.id))]]
    /\ UNCHANGED <<cr, store, now, cmds, res>>

\* clear: the confirm prompt, then saveStoredKeys([]).
clearPrompt(p, shouldClear) ==
    /\ LET m == Prompted(CliRun("clear", <<>>, <<>>, <<>>), shouldClear)
       IN  mg' = [mg EXCEPT ![p] =
                IF ~shouldClear
                THEN CliExit(m, "cancelled", <<>>, 0)
                ELSE [m EXCEPT !.pc = "write", !.keys = <<>>]]
    /\ UNCHANGED <<cr, store, now, res>>

\* clear, started when no other command runs.
clearConfirm(p, shouldClear) ==
    /\ CliStart(p)
    /\ clearPrompt(p, shouldClear)

\* clear, started whatever the other process does.
clearAny(p, shouldClear) ==
    /\ CliStartAny(p)
    /\ clearPrompt(p, shouldClear)

\* saveStoredKeys(keys): fs.writeFile opens the file with flag 'w', which
\* truncates it, and writes the text afterwards.
saveStoredKeysOpen(p) ==
    /\ mg[p].pc = "write"
    /\ store' = GarbageStore
    /\ mg' = [mg EXCEPT ![p].pc = "written"]
    /\ UNCHANGED <<cr, now, cmds, res>>

\* The text is written from the start of the file.  The file was emptied
\* when this process opened it, so that what it holds by now another
\* process wrote since: a longer text keeps its tail behind the shorter
\* one written over it, and the file is no JSON text any more.  Records
\* being of one size, the longer text is the one of more records.
saveStoredKeysDone(p) ==
    /\ mg[p].pc = "written"
    /\ store' = IF store.kind = "array" /\ Len(store.keys) > Len(mg[p].keys)
                THEN GarbageStore
                ELSE ArrayStore(mg[p].keys)
    /\ mg' = [mg EXCEPT ![p] = CliExit(mg[p], "saved", <<>>, 0)]
    /\ UNCHANGED <<cr, now, cmds, res>>

CliWriteStep(p) ==
    \/ \E id \in Ids, label \in Labels, value \in Plaintexts,
          answer \in {"ok", "cancel"}, nonce \in 1..MaxNonce, t \in 1..MaxTime :
            createCredential(p, id, label, value, answer, nonce, t)
    \/ setKeyLoad(p)
    \/ \E answer \in Answers : setKeyConfirm(p, answer)
    \/ \E id \in Ids : deleteKeyLoad(p, id)
    \/ \E answer \in Answers : deleteKeyConfirm(p, answer)
    \/ \E answer \in Answers : clearConfirm(p, answer)
    \/ saveStoredKeysOpen(p)
    \/ saveStoredKeysDone(p)

\* ------------------------------------------------------ crypto functions
\* The functions of crypto.ts applied to inputs: in a round trip the two
\* keys are derived, the value is sealed under the first and opened under
\* the second; in a cipher run the two keys are given.
CredentialIds == {MockCredentialId(UserId(id), 1) : id \in Ids}
PublicKeys == {ZeroBytes65, [b |-> "p256"]}
AesKeys == {deriveEncryptionKey(c, k) : c \in CredentialIds, k \in PublicKeys}

CryptoOff ==
    [run |-> "none", pc |-> "off", value |-> <<>>, nonce |-> 0,
     c1 |-> <<>>, p1 |-> ZeroBytes65, c2 |-> <<>>, p2 |-> ZeroBytes65,
     k1 |-> NotCalled, k2 |-> NotCalled, sealed |-> NoCipher,
     opened |-> [ok |-> FALSE, value |-> <<>>]]

RoundTrips ==
    {[CryptoOff EXCEPT !.run = "roundtrip", !.pc = "start", !.value = v,
                       !.nonce = n, !.c1 = c1, !.p1 = p1, !.c2 = c2, !.p2 = p2] :
        v \in Plaintexts, n \in 1..MaxNonce,
        c1 \in CredentialIds, p1 \in PublicKeys,
        c2 \in CredentialIds, p2 \in PublicKeys}

Given(key) == [ok |-> TRUE, thrown |-> "", key |-> key]
CipherRuns ==
    {[CryptoOff EXCEPT !.run = "cipher", !.pc = "keys", !.value = v,
                       !.nonce = n, !.k1 = Given(k1), !.k2 = Given(k2)] :
        v \in Plaintexts, n \in 1..MaxNonce, k1 \in AesKeys, k2 \in AesKeys}

\* const k1 = await deriveEncryptionKey(c1, p1), and then the same for k2.
CryptoDerive ==
    /\ cr.pc = "start"
    /\ LET k1 == deriveEncryptionKeyCall(cr.c1, cr.p1)
           k2 == IF k1.ok THEN deriveEncryptionKeyCall(cr.c2, cr.p2) ELSE NotCalled
       IN  cr' = [cr EXCEPT !.k1 = k1, !.k2 = k2,
                            !.pc = IF k1.ok /\ k2.ok THEN "keys" ELSE "thrown"]
    /\ UNCHANGED <<store, now, cmds, res, mg>>

\* const { encrypted, iv } = await encryptValue(value, k1)
CryptoEncrypt ==
    /\ cr.pc = "keys"
    /\ cr' = [cr EXCEPT !.sealed = encryptValue(cr.value, cr.k1.key, cr.nonce),
                        !.pc = "sealed"]
    /\ UNCHANGED <<store, now, cmds, res, mg>>

\* await decryptValue(encrypted, iv, k2)
CryptoDecrypt ==
    /\ cr.pc = "sealed"
    /\ cr' = [cr EXCEPT !.opened = decryptValue(cr.sealed.encrypted, cr.sealed.iv,
                                                cr.k2.key),
                        !.pc = "opened"]
    /\ UNCHANGED <<store, now, cmds, res, mg>>

\* ----------------------------------------------------- arbitrary stores
\* Records a store file may hold, written by set or not: sealed the way
\* setKey seals ("bound"), sealed under the key of the record's id
\* ("idkeyed"), with no ciphertext, with no public key (a legacy plaintext
\* record), or with a nonce other than the one that sealed it.
RecordShapes == {"bound", "idkeyed", "nociphertext", "nopublickey", "othernonce"}

AnyRecord(id, shape) ==
    LET credentialId == MockCredentialId(UserId(id), 1)
        key == IF shape = "bound"
               THEN deriveEncryptionKey(credentialId, ZeroBytes65)
               ELSE deriveEncryptionKey(id, ZeroBytes65)
        sealed == encryptValue(<<"v1">>, key, 1)
        written == StoredKey(id, <<"L">>, sealed.encrypted, sealed.iv, 1,
                             credentialId, ZeroBytes65)
    IN  CASE shape = "nociphertext" -> [written EXCEPT !.encryptedValue = Undefined]
          [] shape = "nopublickey" ->
                [written EXCEPT !.encryptedValue = JStr(<<"v1">>),
                                !.credentialPublicKey = Undefined]
          [] shape = "othernonce" -> [written EXCEPT !.iv = ToBase64(NonceBytes(2))]
          [] OTHER -> written

AnyRecords == {AnyRecord(id, shape) : id \in Ids, shape \in RecordShapes}
AnyStores ==
    {AbsentStore, GarbageStore, NonArrayStore}
    \cup {ArrayStore(keys) : keys \in UNION {[1..n -> AnyRecords] : n \in 0..MaxStore}}

\* ------------------------------------------------------- specifications
\* A store of any content, and one command of a path that reads it.
InitAny ==
    /\ store \in AnyStores
    /\ now = 1
    /\ cmds = MaxCmds - 1
    /\ res = ResolverIdle
    /\ mg = [p \in Procs |-> CliIdle]
    /\ cr = CryptoOff

NextAny == ResolverStep \/ \E p \in Procs : CliReadStep(p)

SpecAny == InitAny /\ [][NextAny]_vars

\* A resolver alone, on a store of any content short of the longest.  Once
\* started it goes on: standard input ends or the timer of readRequest
\* fires, every await of main settles (the store read, the wait of
\* getFido2Credential, the derivation and the decryption), and the event
\* loop runs what waits for it.
InitLive ==
    /\ store \in {file \in AnyStores : Len(file.keys) < MaxStore}
    /\ now = 1
    /\ cmds = MaxCmds - 1
    /\ res = ResolverIdle
    /\ mg = [p \in Procs |-> CliIdle]
    /\ cr = CryptoOff

NextLive == ResolverStep

SpecLive == InitLive /\ [][NextLive]_vars /\ WF_vars(ResolverRuns)

\* The management tool from the first write on: the store does not exist
\* yet, and every command of the tool may run.
Init ==
    /\ store = AbsentStore
    /\ now = 1
    /\ cmds = 0
    /\ res = ResolverIdle
    /\ mg = [p \in Procs |-> CliIdle]
    /\ cr = CryptoOff

Next == \E p \in Procs : CliReadStep(p) \/ CliWriteStep(p)

Spec == Init /\ [][Next]_vars

\* A resolver and a writing command of the management tool at the same
\* time, on a store that does not exist yet or holds one record set wrote.
WrittenStores ==
    {AbsentStore} \cup {ArrayStore(<<AnyRecord(id, "bound")>>) : id \in Ids}

InitRace ==
    /\ store \in WrittenStores
    /\ now = 1
    /\ cmds = MaxCmds - 2
    /\ res = ResolverIdle
    /\ mg = [p \in Procs |-> CliIdle]
    /\ cr = CryptoOff

NextRace == ResolverStep \/ \E p \in Procs : CliWriteStep(p)

SpecRace == InitRace /\ [][NextRace]_vars

\* Two writing commands of the management tool at the same time, each in
\* a process of its own.
CliConcStep(p) ==
    \/ \E id \in Ids, label \in Labels, value \in Plaintexts,
          answer \in {"ok", "cancel"}, nonce \in 1..MaxNonce, t \in 1..MaxTime :
            setKeyAny(p, id, label, value, answer, nonce, t)
    \/ setKeyLoad(p)
    \/ \E answer \in Answers : setKeyConfirm(p, answer)
    \/ \E id \in Ids : deleteKeyAny(p, id)
    \/ \E answer \in Answers : deleteKeyConfirm(p, answer)
    \/ \E answer \in Answers : clearAny(p, answer)
    \/ saveStoredKeysOpen(p)
    \/ saveStoredKeysDone(p)

InitConc ==
    /\ store \in WrittenStores
    /\ now = 1
    /\ cmds = MaxCmds - 2
    /\ res = ResolverIdle
    /\ mg = [p \in Procs |-> CliIdle]
    /\ cr = CryptoOff

NextConc == \E p \in Procs : CliConcStep(p)

SpecConc == InitConc /\ [][NextConc]_vars

\* The crypto functions alone.
InitCrypto ==
    /\ store = AbsentStore
    /\ now = 1
    /\ cmds = MaxCmds
    /\ res = ResolverIdle
    /\ mg = [p \in Procs |-> CliIdle]
    /\ cr \in RoundTrips \cup CipherRuns

NextCrypto == CryptoDerive \/ CryptoEncrypt \/ CryptoDecrypt

SpecCrypto == InitCrypto /\ [][NextCrypto]_vars

\* =============================================================== claims
\* What the claims speak of.
ResolverDone == res.pc = "done" /\ Len(res.stdout) = 1
Emitted == res.stdout[1]
Requested == res.request.ids.elems

\* The property name an array element gives: the string, or String(n).
IdKey(e) == IF e.t = "str" THEN e.s ELSE <<ToString(e.n)>>

\* Version 1, provider 'fido2', a non-empty ids array.
AcceptedRequest(request) ==
    /\ request.kind = "object"
    /\ request.protocolVersion = JNum(1)
    /\ request.provider = JStr(<<"fido2">>)
    /\ request.ids.t = "arr"
    /\ request.ids.elems # <<>>

\* An accepted request whose ids are all strings: none of the conditions
\* the specification calls request-fatal.
WellFormedRequest(request) ==
    /\ AcceptedRequest(request)
    /\ \A i \in 1..Len(request.ids.elems) : request.ids.elems[i].t = "str"

\* A record with ciphertext and public key both present.
HardwareBound(record) ==
    record.encryptedValue.t # "undefined" /\ record.credentialPublicKey.t # "undefined"

\* The record the resolver found for the i-th requested id, after a lookup
\* that found one.
FoundAt(i) == FindIndex(res.keys, Requested[i])

\* C1: for every accepted request and every store content, the emitted
\* response places each requested id in exactly one of values or errors.
C1_ExactlyOneOfValuesOrErrors ==
    (ResolverDone /\ AcceptedRequest(res.request)) =>
        \A i \in 1..Len(Requested) :
            (IdKey(Requested[i]) \in DOMAIN Emitted.values)
                # (IdKey(Requested[i]) \in DOMAIN Emitted.errors)

\* C2: once a well-formed request is accepted and the store is read, a
\* failure of one identifier (not found, cancelled or timed out ceremony,
\* failed decryption) does not abort the others: the process exits with
\* code 0 having handled every identifier, each identifier that failed is
\* in errors, and each identifier that was decrypted is in values with the
\* plaintext sealed in its record.
C2_PartialFailureIsolated ==
    (ResolverDone /\ WellFormedRequest(res.request) /\ res.i > 0) =>
        /\ res.exit = 0
        /\ Len(res.out) = Len(Requested)
        /\ \A i \in 1..Len(res.out) :
            /\ res.out[i].kind = "error" => Requested[i].s \in DOMAIN Emitted.errors
            /\ res.out[i].cause = "decrypted" =>
                /\ Requested[i].s \in DOMAIN Emitted.values
                /\ Emitted.values[Requested[i].s] =
                     JStr(FromBase64(res.keys[FoundAt(i)].encryptedValue).pt.s)

\* C2 witness: ["a","b"], a decrypted and b not in the store.
C2_Witness ==
    /\ ResolverDone
    /\ res.request.ids = JArr(<<JStr(<<"a">>), JStr(<<"b">>)>>)
    /\ res.out = <<Outcome("value", "decrypted"), Outcome("error", "notfound")>>
    /\ Emitted.values = Put(NoKeys, <<"a">>, JStr(<<"v1">>))
    /\ DOMAIN Emitted.errors = {<<"b">>}
    /\ res.exit = 0

\* A request with a wrong version or provider, or whose ids are missing,
\* no array or empty.
Rejectable(request) ==
    /\ request.kind = "object"
    /\ \/ request.protocolVersion # JNum(1)
       \/ request.provider # JStr(<<"fido2">>)
       \/ request.ids.t # "arr"
       \/ request.ids.elems = <<>>

\* C3: such a request is rejected as a whole: the response has the four
\* top-level keys of a success response, values is empty, errors holds the
\* _system key alone, and the exit code is not 0.
C3_RejectedAsAWhole ==
    (res.pc = "done" /\ Rejectable(res.request)) =>
        /\ Len(res.stdout) = 1
        /\ DOMAIN Emitted = {"protocolVersion", "provider", "values", "errors"}
        /\ DOMAIN Emitted.values = {}
        /\ DOMAIN Emitted.errors = {<<"_system">>}
        /\ res.exit # 0
        /\ res.exit # -1

\* C3 witness: protocolVersion 2 with an id the store could resolve.
C3_Witness ==
    /\ ResolverDone
    /\ res.request.protocolVersion = JNum(2)
    /\ res.request.provider = JStr(<<"fido2">>)
    /\ res.request.ids = JArr(<<JStr(<<"a">>)>>)
    /\ store.kind = "array"
    /\ \E i \in 1..Len(store.keys) :
            store.keys[i].id = JStr(<<"a">>) /\ HardwareBound(store.keys[i])
    /\ DOMAIN Emitted.errors = {<<"_system">>}
    /\ res.exit = 1

\* C4: in every run that ends with a fatal _system response for a
\* request-fatal condition (the conditions of C3, or an ids array with an
\* element that is no string), no credential verify and no decryption has
\* been started.
C4_FatalBeforeAnyWork ==
    (/\ ResolverDone
     /\ ~WellFormedRequest(res.request)
     /\ <<"_system">> \in DOMAIN Emitted.errors) => res.ev = <<>>

\* C5: with a well-formed request and a store that is unparseable or no
\* array, the exit code is not 0 and errors holds the _system key.
C5_StoreFatalReported ==
    (/\ ResolverDone
     /\ WellFormedRequest(res.request)
     /\ store.kind \in {"garbage", "nonarray"}) =>
        /\ res.exit # 0
        /\ <<"_system">> \in DOMAIN Emitted.errors

\* C6: a record that is not hardware-bound is never passed through: the
\* resolver answers each requested id whose record lacks ciphertext or
\* public key in errors and puts nothing for it in values, and get fails
\* on such a record.
C6_NoPassthrough ==
    /\ (ResolverDone /\ res.exit = 0 /\ res.i > 0) =>
        \A i \in 1..Len(Requested) :
            (FoundAt(i) # 0 /\ ~HardwareBound(res.keys[FoundAt(i)])) =>
                /\ Requested[i].s \in DOMAIN Emitted.errors
                /\ Requested[i].s \notin DOMAIN Emitted.values
    /\ \A p \in Procs :
        (/\ mg[p].pc = "done"
         /\ mg[p].cmd \in {"get", "export"}
         /\ store.kind = "array"
         /\ FindIndex(store.keys, JStr(mg[p].id)) # 0
         /\ ~HardwareBound(store.keys[FindIndex(store.keys, JStr(mg[p].id))])) =>
            mg[p].result.kind = "error"

\* The key the record's own credential material gives.
RecordKey(record) ==
    deriveEncryptionKey(record.credentialId.s, FromBase64(record.credentialPublicKey))

\* C7: on the read path the decryption key is the one derived from the
\* record's stored credentialId and credentialPublicKey, in the resolver
\* and in get, so that a record sealed as set seals it opens.
C7_KeyFromRecordCredential ==
    /\ \A j \in 1..Len(res.ev) :
        res.ev[j].e = "decrypt" =>
            res.ev[j].key = RecordKey(res.keys[FoundAt(res.ev[j].i)])
    /\ \A p \in Procs : \A j \in 1..Len(mg[p].ev) :
        (mg[p].ev[j].e = "decrypt" /\ mg[p].cmd \in {"get", "export"}) =>
            mg[p].ev[j].key =
                RecordKey(store.keys[FindIndex(store.keys, JStr(mg[p].id))])

\* Every decrypt of a history comes right after a verify made for it.
VerifiedDecrypts(ev) ==
    \A j \in 1..Len(ev) :
        ev[j].e = "decrypt" =>
            /\ j > 1
            /\ ev[j - 1].e = "verify"
            /\ ev[j - 1].i = ev[j].i

\* C8: every decrypt attempt, of the resolver and of get and export, is
\* preceded by one credential verify made for that attempt.
C8_VerifyBeforeEveryDecrypt ==
    /\ VerifiedDecrypts(res.ev)
    /\ \A p \in Procs : VerifiedDecrypts(mg[p].ev)

\* C9: after any sequence of set and delete operations (and of the other
\* commands), confirmed or declined, from a store that did not exist, the
\* store never holds two records with the same id.
C9_UniqueIds ==
    \A i \in 1..Len(store.keys) : \A j \in 1..Len(store.keys) :
        i # j => store.keys[i].id # store.keys[j].id

\* C9 witness: a set has replaced the record of its id, the overwrite
\* confirmed, and the store holds two records, one of that id.
C9_Witness ==
    /\ store.kind = "array"
    /\ Len(store.keys) = 2
    /\ \E q \in Procs :
        /\ mg[q].pc = "done" /\ mg[q].cmd = "set" /\ mg[q].result.kind = "saved"
        /\ \E j \in 1..Len(mg[q].ev) : mg[q].ev[j].e = "confirm"
        /\ Cardinality({i \in 1..Len(store.keys) : store.keys[i].id = JStr(mg[q].id)}) = 1

\* The records of the store with this id.
RecordsOf(id) == {i \in 1..Len(store.keys) : store.keys[i].id = JStr(id)}

\* The last command of q was a set that replaced a record after the
\* overwrite was confirmed, and it has saved.
HasReplaced(q) ==
    /\ mg[q].pc = "done"
    /\ mg[q].cmd = "set"
    /\ mg[q].result.kind = "saved"
    /\ \E j \in 1..Len(mg[q].ev) : mg[q].ev[j].e = "confirm"

\* The key under which the last set of q sealed its value.
SealKey(q) ==
    mg[q].ev[CHOOSE j \in 1..Len(mg[q].ev) : mg[q].ev[j].e = "encrypt"].key

\* C10: after set(k, L, v1) and then set(k, L, v2) with the overwrite
\* confirmed, a get of k finds exactly one record with id k, the one that
\* second set sealed, and returns v2, the value sealed in it.
C10_ReplaceOnSetReadsBack ==
    [][\A p \in Procs : \A q \in Procs \ {p} :
        (/\ cmds' = cmds + 1
         /\ mg'[q] = mg[q]
         /\ mg'[p].cmd = "get"
         /\ mg'[p].pc = "done"
         /\ HasReplaced(q)
         /\ mg[q].id = mg'[p].id
         /\ store.kind = "array") =>
            /\ Cardinality(RecordsOf(mg[q].id)) = 1
            /\ \A i \in RecordsOf(mg[q].id) :
                /\ FromBase64(store.keys[i].encryptedValue).key = SealKey(q)
                /\ mg'[p].result =
                    [kind |-> "value",
                     value |-> FromBase64(store.keys[i].encryptedValue).pt.s]]_vars

\* The deadlines a host may give the whole request, in milliseconds: each a
\* number of waits of getFido2Credential.
Deadlines == {k * VERIFY_WAIT_MS : k \in 1..MaxIds}

\* The error of an identifier whose time ran out.
TimeoutError == [message |-> CatchError(GateMessage("timeout")).message]

\* The i-th requested id is not resolved when deadline D passes: the turn of
\* every occurrence of it begins at D or later.
UnresolvedAt(i, D) ==
    \A j \in 1..Len(res.at) : Requested[j] = Requested[i] => res.at[j] >= D

\* C11: whole-request processing has an overall deadline: whatever the
\* deadline, the response of a request whose store was read reports every
\* identifier not yet resolved when the deadline passed in errors, with the
\* Timeout error, so the response covers every requested identifier.
C11_DeadlineReportsTimeout ==
    (ResolverDone /\ WellFormedRequest(res.request) /\ res.i > 0) =>
        \A D \in Deadlines : \A i \in 1..Len(Requested) :
            UnresolvedAt(i, D) =>
                /\ IdKey(Requested[i]) \in DOMAIN Emitted.errors
                /\ Emitted.errors[IdKey(Requested[i])] = TimeoutError

\* The error of an identifier the store has no record of.
KeyNotFoundError == [message |-> <<"Key not found in FIDO2 storage">>]

\* The requested identifiers, by position, that are absent from the store.
AbsentIds == {i \in 1..Len(Requested) : FindIndex(res.keys, Requested[i]) = 0}

\* C12: for an accepted request of N identifiers, duplicates counted, of
\* which K are absent from the store, values and errors of the response
\* have N entries together, exactly K of them KeyNotFound errors.
C12_EntryPerListedId ==
    (ResolverDone /\ WellFormedRequest(res.request) /\ res.i > 0) =>
        /\ Cardinality(DOMAIN Emitted.values \cup DOMAIN Emitted.errors)
             = Len(Requested)
        /\ Cardinality({k \in DOMAIN Emitted.errors :
                           Emitted.errors[k] = KeyNotFoundError})
             = Cardinality(AbsentIds)

\* The resolver reads the store file in this step.
ResolverReads == res.pc = "load" /\ res'.pc # "load"

\* C13: when set, delete or clear writes the store while a resolver reads
\* it, what the resolver reads is the content before the write or the
\* content after it, never a file written in part.
C13_ReadSeesWholeFile ==
    [][ResolverReads => store.kind # "garbage"]_vars

\* A store file whose content is no well-formed sequence of records.
Malformed == store.kind \in {"garbage", "nonarray"}

\* Commands of the management tool that read the store and leave it alone.
ReadCmds == {"get", "export", "list"}

\* What a command that has read an empty sequence ends with.
ReadAsEmpty(m) ==
    IF m.cmd = "list" THEN m.result.kind = "listed"
    ELSE m.result = [kind |-> "error", value |-> <<"key does not exist">>]

\* C14: load yields the empty sequence, without error, for a store that is
\* absent, and fails for a malformed one, in the management tool as in the
\* resolver: a malformed store is never read as if it were empty.
C14_LoadAbsentOrCorrupt ==
    /\ \A p \in Procs :
        (mg[p].pc = "done" /\ mg[p].cmd \in ReadCmds) =>
            /\ store = AbsentStore => ReadAsEmpty(mg[p])
            /\ Malformed => mg[p].result.kind = "error" /\ ~ReadAsEmpty(mg[p])
    /\ (res.pc = "done" /\ AcceptedRequest(res.request)) =>
            /\ store = AbsentStore => res.i > 0 /\ res.keys = <<>>
            /\ Malformed => res.i = 0

\* Process p answers the prompt of its command in this step.
Answered(p, pc, answer) ==
    /\ mg[p].pc = pc
    /\ mg'[p] # mg[p]
    /\ mg'[p].ev = Append(mg[p].ev,
                          Event(IF answer THEN "confirm" ELSE "decline", 0, NoKey))

\* Process p is between its decision to write and the end of the write.
Writing(p) == mg[p].pc \in {"write", "written"}

\* The records other than those of id, in their order.
Kept(keys, id) == {j \in 1..Len(keys) : keys[j].id # JStr(id)}
Others(keys, id) ==
    [i \in 1..Cardinality(Kept(keys, id)) |->
        keys[CHOOSE j \in Kept(keys, id) :
                Cardinality({k \in Kept(keys, id) : k <= j}) = i]]

\* The record a set appends carries what the command was given.
RecordOfSet(record, m) ==
    /\ record.id = JStr(m.id)
    /\ record.label = JStr(m.label)
    /\ record.encryptedValue = m.cipher.encrypted
    /\ record.credentialId = JStr(m.credentialId)

\* C15: a set on an id that exists replaces the record only after the
\* operator confirms.  Declined, the command ends and the store stays as it
\* was, with no write; confirmed, what it saves is the store without the
\* old record, every other record unchanged and in place, and the new
\* record at the end.
C15_SetReplacesOnConfirm ==
    [][\A p \in Procs :
        /\ (mg[p].pc = "set_load" /\ mg'[p] # mg[p] /\ RecordsOf(mg[p].id) # {}) =>
                mg'[p].pc = "set_confirm" /\ store' = store
        /\ Answered(p, "set_confirm", FALSE) =>
                /\ store' = store
                /\ mg'[p].pc = "done"
                /\ mg'[p].result.kind = "cancelled"
        /\ Answered(p, "set_confirm", TRUE) =>
                /\ store' = store
                /\ mg'[p].pc = "write"
                /\ Len(mg'[p].keys) = Len(store.keys)
                /\ SubSeq(mg'[p].keys, 1, Len(store.keys) - 1) = Others(store.keys, mg[p].id)
                /\ RecordOfSet(mg'[p].keys[Len(store.keys)], mg[p])
        /\ (mg[p].cmd = "set" /\ Writing(p) /\ mg'[p] # mg[p]) =>
                \/ mg'[p].pc = "written" /\ mg'[p].keys = mg[p].keys
                \/ mg'[p].pc = "done" /\ store' = ArrayStore(mg[p].keys)
        /\ store' # store => \E q \in Procs : Writing(q) /\ mg'[q] # mg[q]]_vars

\* A set has replaced a record and saved, and the next set on that id was
\* declined: the store holds the record of the first.
C15_Witness ==
    \E p \in Procs : \E q \in Procs \ {p} :
        /\ HasReplaced(q)
        /\ mg[p].pc = "done" /\ mg[p].cmd = "set" /\ mg[p].id = mg[q].id
        /\ mg[p].result.kind = "cancelled"
        /\ Cardinality(RecordsOf(mg[q].id)) = 1
        /\ \A i \in RecordsOf(mg[q].id) :
                FromBase64(store.keys[i].encryptedValue).key = SealKey(q)

\* Process p starts a delete in this step.
DeleteStarts(p) == cmds' = cmds + 1 /\ mg'[p] # mg[p] /\ mg'[p].cmd = "delete"

\* C16: delete removes a record only after confirmation.  Confirmed, what
\* it saves holds no record of that id and every other record, unchanged
\* and in order; declined, or with no record of that id, which is an
\* error, the command ends and the store stays as it was.
C16_DeleteRemovesOnConfirm ==
    [][\A p \in Procs :
        /\ DeleteStarts(p) =>
                /\ store' = store
                /\ RecordsOf(mg'[p].id) = {} =>
                        mg'[p].pc = "done" /\ mg'[p].result.kind = "error"
                /\ RecordsOf(mg'[p].id) # {} => mg'[p].pc = "del_confirm"
        /\ Answered(p, "del_confirm", FALSE) =>
                /\ store' = store
                /\ mg'[p].pc = "done"
                /\ mg'[p].result.kind = "cancelled"
        /\ Answered(p, "del_confirm", TRUE) =>
                /\ store' = store
                /\ mg'[p].pc = "write"
                /\ mg'[p].keys = Others(store.keys, mg[p].id)
        /\ (mg[p].cmd = "delete" /\ Writing(p) /\ mg'[p] # mg[p]) =>
                \/ mg'[p].pc = "written" /\ mg'[p].keys = mg[p].keys
                \/ /\ mg'[p].pc = "done"
                   /\ store' = ArrayStore(mg[p].keys)
                   /\ RecordsOf(mg[p].id)' = {}
        /\ (store' # store /\ mg'[p] # mg[p]) => Writing(p)]_vars

\* A delete was confirmed and has saved, and a record of another id is
\* still in the store.
C16_Witness ==
    \E p \in Procs :
        /\ mg[p].pc = "done" /\ mg[p].cmd = "delete" /\ mg[p].result.kind = "saved"
        /\ RecordsOf(mg[p].id) = {}
        /\ store.kind = "array" /\ store.keys # <<>>

\* A step of a read path: of the resolver, or of a get, export or list.
ReadPathStep ==
    \/ res' # res
    \/ \E p \in Procs : mg'[p] # mg[p] /\ mg'[p].cmd \in ReadCmds

\* C17: read paths never change the store: get, export, list and a run of
\* the resolver leave the store file as it was whatever their outcome, and
\* list neither verifies a credential nor decrypts.
C17_ReadPathsLeaveStore ==
    [][/\ ReadPathStep => store' = store
       /\ \A p \in Procs : mg'[p].cmd = "list" => mg'[p].ev = <<>>]_vars

\* A get has decrypted and printed the value of a record, and the store
\* still holds that record.
C17_Witness ==
    \E p \in Procs :
        /\ mg[p].pc = "done" /\ mg[p].cmd = "get" /\ mg[p].result.kind = "value"
        /\ \E j \in 1..Len(mg[p].ev) : mg[p].ev[j].e = "decrypt"
        /\ RecordsOf(mg[p].id) # {}

\* A response object, as main writes it.
IsResponse(line) ==
    /\ DOMAIN line = {"protocolVersion", "provider", "values", "errors"}
    /\ line.protocolVersion = PROTOCOL_VERSION

\* Standard output holds nothing until the resolver has exited, and then
\* one response object and nothing else.
StdoutIsTheResponse ==
    IF res.pc = "done"
    THEN Len(res.stdout) = 1 /\ IsResponse(res.stdout[1]) /\ res.exit \in {0, 1}
    ELSE res.stdout = <<>>

\* C18: every run of the resolver, on every path (values, errors of single
\* identifiers, a fatal rejection, input that is malformed or missing, the
\* timeout of the request read), exits in the end with exactly one response
\* object on standard output; prompts and diagnostics go to standard error,
\* and nothing but the response is ever written to standard output.
C18_ExitsWithOneResponse ==
    /\ [](StdoutIsTheResponse)
    /\ (res.pc = "read") ~> (res.pc = "done")

\* A resolver whose request read ended by the timer has prompted for the
\* authenticator on standard error and has exited with its response.
C18_Witness ==
    /\ ResolverDone
    /\ res.read = "timeout"
    /\ \E j \in 1..Len(res.stderr) : res.stderr[j] = "touch"

\* The identifiers, by position, whose verify has started and whose result
\* is not there yet.
VerifiesInProgress ==
    {res.ev[k].i : k \in {j \in 1..Len(res.ev) :
                            res.ev[j].e = "verify" /\ Len(res.out) < res.ev[j].i}}

\* C19: the verifications of one run of the resolver come one after the
\* other: no two are in progress at the same time, and the one of an
\* identifier has returned or failed before the one of the next starts.
C19_VerifiesSerialized ==
    [][/\ Cardinality(VerifiesInProgress') <= 1
       /\ VerifiesInProgress' \ VerifiesInProgress # {} =>
            /\ VerifiesInProgress = {}
            /\ \A i \in VerifiesInProgress' : Len(res.out) = i - 1]_vars

\* The resolver has verified for two identifiers of one request, the
\* second after the first had its value.
C19_Witness ==
    /\ ResolverDone
    /\ \E k \in 1..Len(res.ev) : \E l \in (k + 1)..Len(res.ev) :
        /\ res.ev[k] = Event("verify", 1, NoKey)
        /\ res.ev[l] = Event("verify", 2, NoKey)
    /\ res.out[1].kind = "value"

\* A round trip whose two derivations were given the same inputs has come
\* to its end.
RoundTripEnded ==
    /\ cr.run = "roundtrip"
    /\ cr.pc \in {"thrown", "opened"}
    /\ cr.c1 = cr.c2 /\ cr.p1 = cr.p2

\* C20: for every plaintext v and every credentialId and publicKey, what
\* encrypt makes of v under deriveKey(credentialId, publicKey) is opened to
\* v again by a second deriveKey(credentialId, publicKey); the derivation
\* is a function of its two inputs.
C20_RoundTrip ==
    RoundTripEnded =>
        /\ cr.k1.ok /\ cr.k2.ok /\ cr.k1.key = cr.k2.key
        /\ cr.pc = "opened"
        /\ cr.opened = [ok |-> TRUE, value |-> cr.value]

\* The ciphertext and the nonce of a record are what one call of encrypt
\* produced.
ProducedByEncrypt(record) ==
    /\ record.encryptedValue.t = "b64"
    /\ record.iv.t = "b64"
    /\ FromBase64(record.encryptedValue).b = "ct"
    /\ FromBase64(record.encryptedValue).iv = FromBase64(record.iv)

\* The key the record was sealed under at write time.
WriteKey(record) == FromBase64(record.encryptedValue).key

\* The error of a decryption whose tag does not verify.
DecryptionFailedError ==
    [message |-> <<"decrypt failed: ", "operation-specific reason">>]

\* The i-th requested id is not requested again later in the request.
LastOf(i) == \A j \in (i + 1)..Len(Requested) : Requested[j] # Requested[i]

\* C21: decryption never returns a wrong plaintext.  For a record whose
\* ciphertext or nonce is not what encrypt produced, or whose key at read
\* time comes from other credential material than the key it was sealed
\* under, the resolver reports the id in errors and never in values, and
\* with DecryptionFailed when it came to decrypt.
C21_NoWrongPlaintext ==
    (ResolverDone /\ WellFormedRequest(res.request) /\ res.i > 0) =>
        \A i \in 1..Len(Requested) :
            (/\ FoundAt(i) # 0
             /\ \/ ~ProducedByEncrypt(res.keys[FoundAt(i)])
                \/ WriteKey(res.keys[FoundAt(i)])
                     # ResolverKey(Requested[i].s, res.keys[FoundAt(i)])) =>
                /\ Requested[i].s \notin DOMAIN Emitted.values
                /\ Requested[i].s \in DOMAIN Emitted.errors
                /\ (LastOf(i) /\ res.out[i].cause = "decrypt") =>
                        Emitted.errors[Requested[i].s] = DecryptionFailedError

\* Failures that come from the user or the device, as against the data.
DeviceCauses == {"cancel", "timeout", "unavailable"}

\* The class of the code the resolver gives an error of its response:
\* fido2_cancelled and fido2_timeout go with their fixed messages, every
\* other message is that of key_not_found or of decryption_failed.
ReportedClass(entry) ==
    IF entry.message \in {CatchError(GateMessage("cancel")).message,
                          CatchError(GateMessage("timeout")).message}
    THEN "device"
    ELSE "data"

StoredKeyFields ==
    {"id", "label", "encryptedValue", "iv", "createdAt", "rpId", "userHandle",
     "credentialId", "credentialPublicKey"}

\* A record as the claim describes it: the four fields of the binding
\* present, the value held as a ciphertext only, rpId and userHandle those
\* of its id, and its credentialId one the enrollment of that id returns.
BoundAsSet(record) ==
    /\ DOMAIN record = StoredKeyFields
    /\ \A f \in {"encryptedValue", "iv", "credentialId", "credentialPublicKey"} :
            record[f] # Undefined
    /\ record.encryptedValue.t = "b64"
    /\ FromBase64(record.encryptedValue).b = "ct"
    /\ \A value \in Plaintexts :
            \A f \in StoredKeyFields \ {"id", "label"} : record[f] # JStr(value)
    /\ record.rpId = JStr(<<"openclaw.ai">>)
    /\ record.id.t = "str"
    /\ record.userHandle = ToBase64(Utf8Encode(<<"openclaw-">> \o record.id.s))
    /\ \E t \in 0..(MaxTime + 1) :
            record.credentialId
                = JStr(<<"fido2-", "openclaw-">> \o record.id.s \o <<"-", ToString(t)>>)

\* The set of process p pushes its record in this step.
SetPushes(p) ==
    /\ mg[p].cmd = "set"
    /\ mg[p].pc \in {"set_load", "set_confirm"}
    /\ mg'[p].pc = "write"

\* C23: every record that set persists is hardware-bound and carries no
\* plaintext.  Whatever set, delete and clear commands ran from an empty
\* store, each stored record has encryptedValue, iv, credentialId and
\* credentialPublicKey present, rpId 'openclaw.ai', userHandle the base64
\* of 'openclaw-' followed by its id, and the record a set pushes has the
\* credentialId the enrollment of that very set returned.
C23_SetPersistsBoundRecords ==
    [][ /\ store'.kind = "array" =>
                \A i \in 1..Len(store'.keys) : BoundAsSet(store'.keys[i])
        /\ \A p \in Procs :
                SetPushes(p) =>
                    /\ mg[p].credentialId # <<>>
                    /\ mg'[p].keys[Len(mg'[p].keys)].id = JStr(mg[p].id)
                    /\ mg'[p].keys[Len(mg'[p].keys)].credentialId
                            = JStr(mg[p].credentialId)
                    /\ \E j \in 1..Len(mg[p].ev) : mg[p].ev[j].e = "enroll"
      ]_vars

\* C23 witness: the store holds the records of two sets, enrolled apart.
C23_Witness ==
    /\ store.kind = "array"
    /\ Len(store.keys) = 2
    /\ store.keys[1].credentialId # store.keys[2].credentialId
    /\ \A i \in 1..2 : BoundAsSet(store.keys[i])
    /\ \E q \in Procs : mg[q].pc = "done" /\ mg[q].cmd = "set"
                            /\ mg[q].result.kind = "saved"


\* ---------------------------------------------------------------------
\* C24

\* The names of the events a command has gone through, in their order.
Steps(p) == [j \in 1..Len(mg[p].ev) |-> mg[p].ev[j].e]

\* The set of process p is past its enrollment and its sealing.
SetSealed(p) ==
    /\ Len(mg[p].ev) >= 2
    /\ mg[p].ev[1].e = "enroll"
    /\ mg[p].ev[2].e = "encrypt"
    /\ \E t \in 0..(MaxTime + 1) :
            mg[p].ev[2].key
                = deriveEncryptionKey(MockCredentialId(UserId(mg[p].id), t), ZeroBytes65)

\* The set of process p ends declined in this step.
SetDeclined(p) ==
    /\ mg[p].cmd = "set"
    /\ mg[p].pc = "set_confirm"
    /\ mg'[p].pc = "done"
    /\ mg'[p].result.kind = "cancelled"

\* C24: set enrolls, derives the key, encrypts, loads the store, asks for
\* the overwrite confirmation and saves, in that order.  Each set makes
\* exactly one enrollment, before its load and its prompt; the key it
\* encrypts under is derived from what that enrollment returned; the prompt
\* comes after the load and before the save; a set declined at the prompt
\* has enrolled and leaves the store as it was.
C24_SetOrder ==
    [][ \A p \in Procs :
          /\ mg'[p].cmd = "set" =>
                /\ Cardinality({j \in 1..Len(mg'[p].ev) : mg'[p].ev[j].e = "enroll"}) = 1
                /\ mg'[p].ev[1].e = "enroll"
                /\ \A j \in 3..Len(mg'[p].ev) : mg'[p].ev[j].e \in {"confirm", "decline"}
                /\ Len(mg'[p].ev) <= 3
          /\ (mg[p].cmd = "set" /\ mg[p].pc \in {"set_load", "set_confirm", "write", "written"}) =>
                SetSealed(p)
          /\ (mg[p].cmd = "set" /\ mg[p].pc = "set_load") => Len(mg[p].ev) = 2
          /\ (mg[p].cmd = "set" /\ mg[p].pc = "set_confirm" /\ mg'[p] # mg[p]) =>
                /\ Len(mg[p].ev) = 2
                /\ Len(mg'[p].ev) = 3
                /\ mg'[p].pc \in {"write", "done"}
          /\ (mg'[p].cmd = "set" /\ mg'[p].pc = "write" /\ mg[p].pc # "write") =>
                mg[p].pc \in {"set_load", "set_confirm"}
          /\ (mg'[p].cmd = "set" /\ mg'[p] # mg[p] /\ mg[p].pc \notin {"write", "written"}) =>
                store' = store
          /\ SetDeclined(p) =>
                /\ SetSealed(p)
                /\ Steps(p) = <<"enroll", "encrypt">>
                /\ mg'[p].ev[3].e = "decline"
                /\ store' = store
      ]_vars

\* C24 witness: a set has ended declined at the overwrite prompt, having
\* enrolled, and the record it would have replaced is still in the store.
C24_Witness ==
    \E q \in Procs :
        /\ mg[q].pc = "done" /\ mg[q].cmd = "set" /\ mg[q].result.kind = "cancelled"
        /\ Steps(q) = <<"enroll", "encrypt", "decline">>
        /\ store.kind = "array"
        /\ FindIndex(store.keys, JStr(mg[q].id)) > 0


\* ---------------------------------------------------------------------
\* C25

\* getFido2Credential returns in this step: the resolver leaves its wait
\* with an outcome that is not a throw of the device.
VerifyReturns ==
    /\ res.pc = "verify"
    /\ res'.pc = "next"
    /\ res'.out[Len(res'.out)].cause \notin DeviceCauses

\* What a run has answered so far.
Answer(r) == [values |-> r.values, errors |-> r.errors, out |-> r.out]

\* The record the current identifier resolves.
CurrentKey == res.keys[FindIndex(res.keys, res.request.ids.elems[res.i])]

\* C25: the response does not depend on the content of the assertion.
\* Whenever verify returns, the values and errors the run has after the
\* step are the ones it would have had with any other assertion returned,
\* the store and the request being the same; no other step of the resolver
\* is given an assertion.
C25_AssertionNotUsed ==
    [][ VerifyReturns =>
            \A assertion \in Assertions :
                Answer(res') =
                    Answer(resolveSecretKey([res EXCEPT !.t = @ + VERIFY_WAIT_MS],
                                            res.request.ids.elems[res.i].s,
                                            CurrentKey, assertion))
      ]_vars

\* C25 witness: a run has ended in which one verify returned and the value
\* was decrypted and another returned and the decryption failed.
C25_Witness ==
    /\ ResolverDone
    /\ \E i \in 1..Len(res.out) : res.out[i].cause = "decrypted"
    /\ \E i \in 1..Len(res.out) : res.out[i].cause = "decrypt"
    /\ Cardinality(Assertions) > 1


\* ---------------------------------------------------------------------
\* C26

\* Process p ends its save in this step.
SaveEnds(p) == mg[p].pc = "written" /\ mg'[p].pc = "done"

\* The list process p is about to save: the one it loaded with its own
\* change applied, which nothing alters once the command has decided to
\* write.
View(p) == mg[p].keys

\* No two records of the list have the same id.
UniqueIds(keys) ==
    \A i, j \in 1..Len(keys) : keys[i].id = keys[j].id => i = j

\* C26: under any interleaving of two management processes that load the
\* store and later save it, the store after a save is the view of the
\* process that saved last, the list it loaded with only its own change
\* applied, whatever the other process saved in between; no reachable
\* store holds two records of one id.
C26_LastWriterWins ==
    [][ /\ \A p \in Procs :
            /\ SaveEnds(p) => store' = ArrayStore(View(p))
            /\ (mg[p].pc = "write" /\ mg'[p].pc = "written") => mg'[p].keys = View(p)
        /\ store'.kind = "array" => UniqueIds(store'.keys)
      ]_vars

====
